---------------------------- MODULE Spec2Model ----------------------------
(***************************************************************************)
(* ArmoryQt.py (ArmoryMainWindow): wallet registry loading, the full       *)
(* blockchain load, the combined-ledger build, the ledger table and the    *)
(* heartbeat, as a state machine.  The collaborators that live in          *)
(* armoryengine / qtdefines (wallet files, the block data manager TheBDM,  *)
(* the networking factory) are modelled at their interface.                *)
(***************************************************************************)
EXTENDS Integers, Sequences, FiniteSets, TLC

(***************************************************************************)
(* Bounds of the model.                                                    *)
(***************************************************************************)
MaxPaths == 2          \* longest list of wallet paths handed to the loader
StartHeight == 5       \* height of the top block in blk0001.dat at startup
MaxFileEvents == 1     \* blocks appended to blk0001.dat while running
MaxZeroConf == 1       \* zero-confirmation transactions tracked at a time
MaxQuietTicks == 2     \* consecutive uneventful heartbeats that are counted
MaxRows == 2           \* longest ledger handed to convertLedgerToTable alone
MaxReconnects == 2     \* runs of restartConnection that are counted

(***************************************************************************)
(* Program constants.                                                      *)
(***************************************************************************)
\* 0xffffffff in the source: the block number of an entry that is in no
\* block.  TLC's integers are 32-bit signed, so the model's heights live in
\* 0..2^31-1 and the sentinel is the largest of them.
UINT32_MAX == 2147483647
\* the confirmation threshold of createCombinedLedger
ConfThreshold == 6
\* the initial slot value of walletBalances
UnsetBalance == -1

NoBlock == -1          \* txBlock value of a transaction that is in no block
NoText == << >>        \* a QLabel whose text was never set; <<v>> shows amount v
\* no connection to a Satoshi client was ever asked for
NoConnection == [status |-> "none", peer |-> << >>]

(***************************************************************************)
(* The outside world: wallet files, addresses, transactions.               *)
(***************************************************************************)
Paths == {"p1", "p2", "p3", "p4"}
WalletIDs == {"A", "B"}
Hashes == {1, 2, 3}

\* PyBtcWallet().readWalletFile(fpath): p2 is a watching-only copy of the
\* wallet stored in p1 (same unique ID); p4 cannot be parsed.
readWalletFile(fpath) ==
    CASE fpath = "p1" -> [ok |-> TRUE, wltUniqueIDB58 |-> "A", walletPath |-> "p1",
                          watchingOnly |-> FALSE, labelName |-> "Primary"]
      [] fpath = "p2" -> [ok |-> TRUE, wltUniqueIDB58 |-> "A", walletPath |-> "p2",
                          watchingOnly |-> TRUE, labelName |-> "PrimaryCopy"]
      [] fpath = "p3" -> [ok |-> TRUE, wltUniqueIDB58 |-> "B", walletPath |-> "p3",
                          watchingOnly |-> TRUE, labelName |-> "Cold"]
      [] OTHER        -> [ok |-> FALSE, wltUniqueIDB58 |-> "", walletPath |-> fpath,
                          watchingOnly |-> FALSE, labelName |-> ""]

\* wlt.getAddrList()
getAddrList(wltID) == IF wltID = "A" THEN <<"a1", "a2">> ELSE <<"b1">>

\* Effect of transaction h on address addr (credits minus debits).
TxAddrValue(h, addr) ==
    CASE h = 1 /\ addr = "a1" -> 5
      [] h = 2 /\ addr = "a2" -> -2
      [] h = 2 /\ addr = "b1" -> 2
      [] h = 3 /\ addr = "b1" -> 3
      [] OTHER -> 0

RECURSIVE SumSeq(_)
SumSeq(s) == IF s = <<>> THEN 0 ELSE Head(s) + SumSeq(Tail(s))

Range(s) == {s[i] : i \in 1..Len(s)}

TxWalletValue(h, wltID) ==
    SumSeq([i \in 1..Len(getAddrList(wltID)) |-> TxAddrValue(h, getAddrList(wltID)[i])])

TxTouches(h, wltID) == \E a \in Range(getAddrList(wltID)) : TxAddrValue(h, a) # 0

\* The contents blk0001.dat can have at startup: for every transaction the
\* height of its block, or NoBlock.
InitChains ==
    { (1 :> 0 @@ 2 :> StartHeight @@ 3 :> NoBlock),
      (1 :> StartHeight @@ 2 :> StartHeight @@ 3 :> NoBlock),
      (1 :> 2 @@ 2 :> NoBlock @@ 3 :> 0) }

\* Arrival time of a zero-confirmation transaction, header time of a block.
ArrivalTime == 9000
BlockTime(height) == 1000 + height

VARIABLES
    pc,               \* where the program is: "load", "chain", "run", "dead"
                      \* ("table", "tabled", "totalled": convertLedgerToTable
                      \* and the totals loop on their own)
    wltPaths,         \* loadWalletsAndSettings: the paths to load
    pathIdx,          \* loadWalletsAndSettings: position in wltPaths
    wltExclude,       \* settings 'Excluded_Wallets'
    wltOffline,       \* settings 'Offline_WalletIDs'
    walletMap,        \* self.walletMap: wallet ID -> wallet handle
    walletIndices,    \* self.walletIndices: wallet ID -> index (0-based)
    walletIDSet,      \* self.walletIDSet
    walletIDList,     \* self.walletIDList
    walletBalances,   \* self.walletBalances: [kind |-> "list", items |-> balances],
                      \* or [kind |-> "int", items |-> <<balance>>] once it is a number
    walletSubLedgers, \* self.walletSubLedgers
    walletLedgers,    \* self.walletLedgers
    walletOfflines,   \* self.walletOfflines
    combinedLedger,   \* self.combinedLedger: sequence of [wltID, le]
    ledgerSize,       \* self.ledgerSize
    ledgerTable,      \* self.ledgerTable
    lblTotalFunds,    \* amount shown by self.lblTotalFunds
    lblUnconfirmed,   \* amount shown by self.lblUnconfirmed
    rdoChecked,       \* the checked radio button: "all", "mine", "watch"
    latestBlockNum,   \* self.latestBlockNum
    bdmInitialized,   \* TheBDM.isInitialized()
    bdmHeight,        \* TheBDM.getTopBlockHeader().getBlockHeight()
    fileHeight,       \* height of the best chain stored in blk0001.dat
    pendingBlks,      \* blocks in blk0001.dat that TheBDM has not read yet
    txBlock,          \* blk0001.dat: transaction hash -> block height / NoBlock
    fileEvents,       \* blocks appended to blk0001.dat since startup
    zeroConfTx,       \* NetworkingFactory.zeroConfTx / zeroConfTxTime: hash -> time
    hbScheduled,      \* a call of Heartbeat is pending in the reactor
    quietTicks,       \* how many Heartbeats in a row, up to now, found no new
                      \* block and returned normally with nothing else happening
    lastExc,          \* the exception the last handler raised, "" when none
    statusBar,        \* the message self.statusBar() was last asked to show
    connection,       \* the link to the Satoshi client: [status, peer], status
                      \* "none", "connecting" (a connectTCP is pending) or "up"
    reconnects,       \* how often restartConnection has run, up to MaxReconnects
    extraHeartbeatFunctions, \* self.extraHeartbeatFunctions
    hbTrace           \* what the last call of Heartbeat did, in order

regVars == <<wltPaths, pathIdx, wltExclude, wltOffline, walletMap, walletIndices,
             walletIDSet, walletIDList, walletOfflines>>
mirrorVars == <<walletBalances, walletSubLedgers, walletLedgers>>
ledgerVars == <<combinedLedger, ledgerSize, ledgerTable, lblTotalFunds, lblUnconfirmed>>
chainVars == <<bdmInitialized, bdmHeight, fileHeight, pendingBlks, txBlock, fileEvents>>
hbVars == <<hbScheduled, quietTicks>>
netVars == <<connection, reconnects>>
beatVars == <<extraHeartbeatFunctions, hbTrace>>
auxVars == <<statusBar, netVars, beatVars>>
vars == <<pc, regVars, mirrorVars, ledgerVars, rdoChecked, latestBlockNum, chainVars,
          zeroConfTx, hbVars, lastExc, auxVars>>

(***************************************************************************)
(* Sequences of paths of length at most n.                                 *)
(***************************************************************************)
SeqsUpTo(S, n) == UNION {[1..k -> S] : k \in 0..n}


(***************************************************************************)
(* loadWalletsAndSettings                                                  *)
(***************************************************************************)
Init ==
    /\ pc = "load"
    /\ wltPaths \in SeqsUpTo(Paths, MaxPaths)
    /\ pathIdx = 1
    /\ wltExclude \in {{}, {"p1"}}
    /\ wltOffline \in {{}, {"B", "p2"}}     \* a wallet ID and a path
    /\ walletMap = << >>
    /\ walletIndices = << >>
    /\ walletIDSet = {}
    /\ walletIDList = << >>
    /\ walletBalances = [kind |-> "list", items |-> << >>]
    /\ walletSubLedgers = << >>
    /\ walletLedgers = << >>
    /\ walletOfflines = {}
    /\ combinedLedger = << >>
    /\ ledgerSize = 0
    /\ ledgerTable = << >>
    /\ lblTotalFunds = NoText
    /\ lblUnconfirmed = NoText
    /\ rdoChecked = "all"
    /\ latestBlockNum = 0
    /\ bdmInitialized = FALSE
    /\ bdmHeight = 0
    /\ fileHeight = StartHeight
    /\ pendingBlks = 0
    /\ txBlock \in InitChains
    /\ fileEvents = 0
    /\ zeroConfTx = << >>
    /\ hbScheduled = FALSE
    /\ quietTicks = 0
    /\ lastExc = ""
    /\ statusBar = ""
    /\ connection = NoConnection
    /\ reconnects = 0
    /\ extraHeartbeatFunctions = <<"createCombinedLedger">>
    /\ hbTrace = << >>

\* Mutant of IsDuplicate: the duplicate check is lost.
IsDuplicateNever(wltID) == FALSE

\* `if wltID in self.walletIDSet`
IsDuplicate(wltID) == wltID \in walletIDSet

\* The wallet handle kept in walletMap: the object readWalletFile returned,
\* with the ledger and balance its cppWallet holds (empty until a sync).
NewHandle(wltLoad) ==
    [walletPath |-> wltLoad.walletPath, watchingOnly |-> wltLoad.watchingOnly,
     labelName |-> wltLoad.labelName, txLedger |-> << >>, balance |-> 0]

\* One iteration of `for fpath in wltPaths`.
LoadWalletStep ==
    /\ pc = "load"
    /\ pathIdx <= Len(wltPaths)
    /\ LET fpath == wltPaths[pathIdx]
           wltLoad == readWalletFile(fpath)
           wltID == wltLoad.wltUniqueIDB58
       IN  IF ~wltLoad.ok
           THEN \* except: print ...; raise  -- the constructor is left
                /\ pc' = "dead"
                /\ lastExc' = "WalletLoadError"
                /\ UNCHANGED <<pathIdx, walletMap, walletIndices, walletIDSet,
                               walletIDList, walletBalances, walletOfflines>>
           ELSE /\ pc' = pc
                /\ lastExc' = ""
                /\ pathIdx' = pathIdx + 1
                /\ IF fpath \in wltExclude \/ IsDuplicate(wltID)
                   THEN UNCHANGED <<walletMap, walletIndices, walletIDSet,
                                    walletIDList, walletBalances, walletOfflines>>
                   ELSE /\ walletMap' = (wltID :> NewHandle(wltLoad)) @@ walletMap
                        /\ walletIndices' =
                              (wltID :> Cardinality(DOMAIN walletMap')  - 1) @@ walletIndices
                        /\ walletIDSet' = walletIDSet \cup {wltID}
                        /\ walletIDList' = Append(walletIDList, wltID)
                        /\ walletBalances' =
                              [walletBalances EXCEPT !.items = Append(@, UnsetBalance)]
                        /\ walletOfflines' =
                              IF wltID \in wltOffline \/ fpath \in wltOffline
                              THEN walletOfflines \cup {wltID}
                              ELSE walletOfflines
    /\ UNCHANGED <<wltPaths, wltExclude, wltOffline, walletSubLedgers, walletLedgers,
                   ledgerVars, rdoChecked, latestBlockNum, chainVars, zeroConfTx, hbVars,
                   auxVars>>

\* The loop is over: the summary is printed and the function returns; its
\* locals (wltPaths, wltExclude, wltOffline) are gone.
LoadWalletsDone ==
    /\ pc = "load"
    /\ pathIdx > Len(wltPaths)
    /\ pc' = "chain"
    /\ wltPaths' = << >>
    /\ pathIdx' = 1
    /\ wltExclude' = {}
    /\ wltOffline' = {}
    /\ lastExc' = ""
    /\ UNCHANGED <<walletMap, walletIndices, walletIDSet, walletIDList, walletOfflines,
                   mirrorVars, ledgerVars, rdoChecked, latestBlockNum, chainVars,
                   zeroConfTx, hbVars, auxVars>>


(***************************************************************************)
(* Ledger entries.  An entry is [txHash, blockNum, index, value].          *)
(***************************************************************************)
\* LedgerEntry's operator< : block number, then position in the block.
KeyLess(a, b) ==
    \/ a.blockNum < b.blockNum
    \/ a.blockNum = b.blockNum /\ a.index < b.index

\* Position of transaction h in its block (the coinbase is at 0).
TxIndex(h, chain) == 1 + Cardinality({g \in Hashes : chain[g] = chain[h] /\ g < h})

\* A set of entries with distinct keys as a sequence, oldest first.
RECURSIVE OldestFirst(_)
OldestFirst(S) ==
    IF S = {} THEN << >>
    ELSE LET m == CHOOSE x \in S : \A y \in S \ {x} : KeyLess(x, y)
         IN  <<m>> \o OldestFirst(S \ {m})

\* wlt.getTxLedger() after wlt.syncWithBlockchain(): the entries of the
\* transactions of the chain that touch one of the wallet's addresses.
ScanWallet(wltID, chain) ==
    OldestFirst({[txHash |-> h, blockNum |-> chain[h], index |-> TxIndex(h, chain),
                  value |-> TxWalletValue(h, wltID)] :
                 h \in {g \in Hashes : chain[g] # NoBlock /\ TxTouches(g, wltID)}})

\* wlt.getTxLedger(addr20) after the sync.
ScanAddr(addr, chain) ==
    OldestFirst({[txHash |-> h, blockNum |-> chain[h], index |-> TxIndex(h, chain),
                  value |-> TxAddrValue(h, addr)] :
                 h \in {g \in Hashes : chain[g] # NoBlock /\ TxAddrValue(g, addr) # 0}})

\* wlt.getBalance()
LedgerBalance(ledger) == SumSeq([i \in 1..Len(ledger) |-> ledger[i].value])

\* createZeroConfLedger(wlt): one entry, at the unconfirmed block number, for
\* every tracked zero-confirmation transaction that touches the wallet.
createZeroConfLedger(wltID) ==
    OldestFirst({[txHash |-> h, blockNum |-> UINT32_MAX, index |-> h,
                  value |-> TxWalletValue(h, wltID)] :
                 h \in {g \in DOMAIN zeroConfTx : TxTouches(g, wltID)}})

(***************************************************************************)
(* list.sort(key=lambda x: x[1], reverse=True): a stable sort, newest      *)
(* first; rows with equal keys keep the order they had.                    *)
(***************************************************************************)
RECURSIVE InsertNewestFirst(_, _)
InsertNewestFirst(x, s) ==
    IF s = << >> THEN <<x>>
    ELSE IF KeyLess(Head(s)[2], x[2]) THEN <<x>> \o s
    ELSE <<Head(s)>> \o InsertNewestFirst(x, Tail(s))

RECURSIVE SortFold(_, _)
SortFold(s, acc) ==
    IF s = << >> THEN acc ELSE SortFold(Tail(s), InsertNewestFirst(Head(s), acc))

\* Mutant of SortLedger: the sort is lost.
SortLedgerSkipped(ledger) == ledger

SortLedger(ledger) == SortFold(ledger, << >>)

(***************************************************************************)
(* convertLedgerToTable                                                    *)
(***************************************************************************)
\* Mutant of ConfCount: the +1 and the clamp are lost.
ConfCountRaw(tip, le) == tip - le.blockNum

\* nConf of a row
ConfCount(tip, le) ==
    IF le.blockNum >= UINT32_MAX THEN 0 ELSE tip - le.blockNum + 1

\* The row needs the arrival time of a transaction that is not tracked:
\* self.NetworkingFactory.zeroConfTxTime[le.getTxHash()] raises KeyError.
RowKeyError(tip, le) == ConfCount(tip, le) <= 0 /\ le.txHash \notin DOMAIN zeroConfTx

TableRow(wmap, tip, topHeight, wltID, le) ==
    LET nConf == ConfCount(tip, le)
    IN  [NumConf |-> nConf,
         Date |-> IF nConf > 0 THEN BlockTime(topHeight) ELSE zeroConfTx[le.txHash],
         TxDir |-> le.value,
         WltName |-> wmap[wltID].labelName,
         Comment |-> "",
         Amount |-> le.value,
         IsMine |-> wmap[wltID].watchingOnly /\ ~(wltID \in walletOfflines),
         WltID |-> wltID]

\* [table, exc]: the table, or the exception raised while building it.
convertLedgerToTable(ledger, wmap, tip, topHeight) ==
    IF \E i \in 1..Len(ledger) : RowKeyError(tip, ledger[i][2])
    THEN [table |-> << >>, exc |-> "KeyError"]
    ELSE [table |-> [i \in 1..Len(ledger) |->
                        TableRow(wmap, tip, topHeight, ledger[i][1], ledger[i][2])],
          exc |-> ""]


(***************************************************************************)
(* createCombinedLedger                                                    *)
(***************************************************************************)
\* determineWalletType(wlt, self)[0] == WLTTYPES.WatchOnly
IsWatchOnlyType(wmap, wid) == wmap[wid].watchingOnly

\* Mutant of SelectedWallets: the two filters are exchanged.
SelectedWalletsSwapped(wmap, checked) ==
    CASE checked = "all"   -> walletIDList
      [] checked = "mine"  -> SelectSeq(walletIDList, LAMBDA x : IsWatchOnlyType(wmap, x))
      [] checked = "watch" -> SelectSeq(walletIDList, LAMBDA x : ~IsWatchOnlyType(wmap, x))

\* The wallet IDs chosen by the checked radio button (wltIDList == None).
SelectedWallets(wmap, checked) ==
    CASE checked = "all"   -> walletIDList
      [] checked = "mine"  -> SelectSeq(walletIDList, LAMBDA x : ~IsWatchOnlyType(wmap, x))
      [] checked = "watch" -> SelectSeq(walletIDList, LAMBDA x : IsWatchOnlyType(wmap, x))

\* Mutant of FreshLedger: the old rows are kept.
FreshLedgerKept(old) == old

\* `self.combinedLedger = []`
FreshLedger(old) == << >>

\* `for wltID in wltIDList`: refresh the wallet's slot of walletLedgers and
\* extend the combined ledger; a missing slot raises IndexError.
RECURSIVE CombineLoop(_, _, _, _)
CombineLoop(ids, wmap, wl, cl) ==
    IF ids = << >> THEN [wl |-> wl, cl |-> cl, exc |-> ""]
    ELSE LET wltID == Head(ids)
             index == walletIndices[wltID]
         IN  IF index + 1 > Len(wl)
             THEN [wl |-> wl, cl |-> cl, exc |-> "IndexError"]
             ELSE LET ledger == wmap[wltID].txLedger
                      id_le_pairs == [i \in 1..Len(ledger) |-> <<wltID, ledger[i]>>]
                  IN  CombineLoop(Tail(ids), wmap, [wl EXCEPT ![index + 1] = ledger],
                                  cl \o id_le_pairs)

\* `for wlt,le in self.combinedLedger`: <<totFund, unconfFund>>
RECURSIVE FundLoop(_, _, _, _)
FundLoop(cl, tip, totFund, unconfFund) ==
    IF cl = << >> THEN <<totFund, unconfFund>>
    ELSE LET le == Head(cl)[2]
         IN  IF (tip - le.blockNum + 1) < ConfThreshold
             THEN FundLoop(Tail(cl), tip, totFund, unconfFund + le.value)
             ELSE FundLoop(Tail(cl), tip, totFund + le.value, unconfFund)

\* Mutant of FundTotals: an unconfirmed value replaces the sum so far.
RECURSIVE FundLoopAssign(_, _, _, _)
FundLoopAssign(cl, tip, totFund, unconfFund) ==
    IF cl = << >> THEN <<totFund, unconfFund>>
    ELSE LET le == Head(cl)[2]
         IN  IF (tip - le.blockNum + 1) < ConfThreshold
             THEN FundLoopAssign(Tail(cl), tip, totFund, le.value)
             ELSE FundLoopAssign(Tail(cl), tip, totFund + le.value, unconfFund)

FundTotalsAssign(cl, tip) == FundLoopAssign(cl, tip, 0, 0)

\* Mutant of FundTotals: an entry with exactly ConfThreshold confirmations
\* still counts as unconfirmed.
RECURSIVE FundLoopInclusive(_, _, _, _)
FundLoopInclusive(cl, tip, totFund, unconfFund) ==
    IF cl = << >> THEN <<totFund, unconfFund>>
    ELSE LET le == Head(cl)[2]
         IN  IF (tip - le.blockNum + 1) <= ConfThreshold
             THEN FundLoopInclusive(Tail(cl), tip, totFund, unconfFund + le.value)
             ELSE FundLoopInclusive(Tail(cl), tip, totFund + le.value, unconfFund)

FundTotalsInclusive(cl, tip) == FundLoopInclusive(cl, tip, 0, 0)

FundTotals(cl, tip) == FundLoop(cl, tip, 0, 0)

\* The whole of createCombinedLedger(ids) on the wallets wmap, the mirror
\* wl of their ledgers, the tracked tip and the engine's top height: the
\* new values of the fields it writes and the exception it ends with.
createCombinedLedger(ids, wmap, wl, tip, topHeight) ==
    LET loop == CombineLoop(ids, wmap, wl, FreshLedger(combinedLedger))
        sorted == SortLedger(loop.cl)
        funds == FundTotals(sorted, tip)
        conv == convertLedgerToTable(sorted, wmap, tip, topHeight)
    IN  IF loop.exc # ""
        THEN [walletLedgers |-> loop.wl, combinedLedger |-> loop.cl,
              ledgerSize |-> ledgerSize, lblTotalFunds |-> lblTotalFunds,
              lblUnconfirmed |-> lblUnconfirmed, ledgerTable |-> ledgerTable,
              exc |-> loop.exc]
        ELSE [walletLedgers |-> loop.wl, combinedLedger |-> sorted,
              ledgerSize |-> Len(sorted), lblTotalFunds |-> <<funds[1]>>,
              lblUnconfirmed |-> <<funds[2]>>,
              ledgerTable |-> IF conv.exc = "" THEN conv.table ELSE ledgerTable,
              exc |-> conv.exc]

(***************************************************************************)
(* loadBlockchain, and the table refresh that follows it in __init__       *)
(***************************************************************************)
\* All orders in which a dict with keys S can be iterated.
Orders(S) == {o \in [1..Cardinality(S) -> S] : \A i, j \in 1..Cardinality(S) :
                                                    i # j => o[i] # o[j]}

\* wlt.syncWithBlockchain() for every wallet
SyncAll(wmap, chain) ==
    [w \in DOMAIN wmap |->
        [wmap[w] EXCEPT !.txLedger = ScanWallet(w, chain),
                        !.balance = LedgerBalance(ScanWallet(w, chain))]]

\* self.walletBalances[wltIndex] = wlt.getBalance(), for every wallet
RECURSIVE MirrorBalances(_, _, _)
MirrorBalances(order, wmap, bal) ==
    IF order = << >> THEN bal
    ELSE MirrorBalances(Tail(order), wmap,
            [bal EXCEPT !.items[walletIndices[Head(order)] + 1] = wmap[Head(order)].balance])

SubLedgersOf(wltID, chain) ==
    [i \in 1..Len(getAddrList(wltID)) |-> ScanAddr(getAddrList(wltID)[i], chain)]

\* Mutant of WalletsSynced: the wallets are synchronised whether or not the
\* engine is initialized.
WalletsSyncedAlways(initialized) == TRUE

\* `if TheBDM.isInitialized():` after BDM_LoadBlockchainFile()
WalletsSynced(initialized) == initialized

\* the messages of self.statusBar().showMessage(..)
MsgLoaded == "Blockchain loaded, wallets sync'd!"
MsgLoadFailed == "! Blockchain loading failed !"

loadBlockchain ==
    /\ pc = "chain"
    /\ \E loaded \in BOOLEAN, order \in Orders(DOMAIN walletMap) :
         \* BDM_LoadBlockchainFile()
         /\ bdmInitialized' = loaded
         /\ bdmHeight' = IF loaded THEN fileHeight ELSE bdmHeight
         /\ pendingBlks' = IF loaded THEN 0 ELSE pendingBlks
         /\ latestBlockNum' = bdmHeight'
         /\ IF WalletsSynced(bdmInitialized')
            THEN LET wmap == SyncAll(walletMap, txBlock)
                     wl == walletLedgers \o [i \in 1..Len(order) |-> wmap[order[i]].txLedger]
                     r == createCombinedLedger(walletIDList, wmap, wl,
                                               latestBlockNum', bdmHeight')
                     \* __init__: self.ledgerTable = self.convertLedgerToTable(..)
                     conv == convertLedgerToTable(r.combinedLedger, wmap,
                                                  latestBlockNum', bdmHeight')
                     exc == IF r.exc # "" THEN r.exc ELSE conv.exc
                 IN  /\ walletMap' = wmap
                     /\ walletBalances' = MirrorBalances(order, wmap, walletBalances)
                     /\ walletSubLedgers' = walletSubLedgers \o
                            [i \in 1..Len(order) |-> SubLedgersOf(order[i], txBlock)]
                     /\ walletLedgers' = r.walletLedgers
                     /\ combinedLedger' = r.combinedLedger
                     /\ ledgerSize' = IF r.exc = "" THEN Len(r.combinedLedger)
                                                    ELSE r.ledgerSize
                     /\ lblTotalFunds' = r.lblTotalFunds
                     /\ lblUnconfirmed' = r.lblUnconfirmed
                     /\ ledgerTable' = IF exc = "" THEN conv.table ELSE r.ledgerTable
                     /\ lastExc' = exc
                     /\ pc' = IF exc = "" THEN "run" ELSE "dead"
                     /\ statusBar' = IF r.exc = "" THEN MsgLoaded
                                                   ELSE "Syncing wallets with blockchain..."
            ELSE /\ ledgerTable' = convertLedgerToTable(combinedLedger, walletMap,
                                        latestBlockNum', bdmHeight').table
                 /\ lastExc' = ""
                 /\ pc' = "run"
                 /\ statusBar' = MsgLoadFailed
                 /\ UNCHANGED <<walletMap, mirrorVars, combinedLedger, ledgerSize,
                                lblTotalFunds, lblUnconfirmed>>
    \* "This method is invoked when the app is initialized": the first
    \* Heartbeat is due once the window is constructed
    /\ hbScheduled' = (pc' = "run")
    /\ UNCHANGED <<wltPaths, pathIdx, wltExclude, wltOffline, walletIndices, walletIDSet,
                   walletIDList, walletOfflines, rdoChecked, fileHeight, txBlock,
                   fileEvents, zeroConfTx, quietTicks, netVars, beatVars>>


(***************************************************************************)
(* Heartbeat                                                               *)
(***************************************************************************)
\* Mutant of HeartbeatSteps: the next call is asked for before the poll.
HeartbeatStepsEager(polled, funcs, exc) ==
    <<"callLater">> \o (IF polled THEN <<"readBlkFileUpdate">> ELSE << >>) \o funcs

\* The calls one Heartbeat makes, in order: the poll when the engine is
\* initialized, the registered functions from first to last up to the one
\* that raises (only createCombinedLedger can), and when none raised the
\* request for the next call.
HeartbeatSteps(polled, funcs, exc) ==
    (IF polled THEN <<"readBlkFileUpdate">> ELSE << >>)
    \o (IF exc = "" THEN funcs \o <<"callLater">>
        ELSE SubSeq(funcs, 1, CHOOSE i \in 1..Len(funcs) : funcs[i] = "createCombinedLedger"))

\* The tracked tip after the poll: nb is what readBlkFileUpdate returned
\* (newBlks), engineTop the engine's top block height after it.
PollTip(nb, tracked, engineTop) == IF nb > 0 THEN tracked ELSE engineTop

Heartbeat ==
    /\ pc = "run"
    /\ hbScheduled
    \* Check for new blocks in the blk0001.dat file: readBlkFileUpdate
    \* returns the number of blocks it read
    /\ IF bdmInitialized
       THEN /\ bdmHeight' = fileHeight
            /\ pendingBlks' = 0
            /\ latestBlockNum' = PollTip(pendingBlks, latestBlockNum, bdmHeight')
       ELSE UNCHANGED <<bdmHeight, pendingBlks, latestBlockNum>>
    \* Update wallet balances: the list is replaced by the balance of the
    \* wallet the dict iteration ends with
    /\ IF DOMAIN walletMap = {}
       THEN UNCHANGED walletBalances
       ELSE \E last \in DOMAIN walletMap :
              walletBalances' = [kind |-> "int", items |-> <<walletMap[last].balance>>]
    \* for func in self.extraHeartbeatFunctions: func()
    /\ LET r == createCombinedLedger(SelectedWallets(walletMap, rdoChecked), walletMap,
                                     walletLedgers, latestBlockNum', bdmHeight')
       IN  /\ walletLedgers' = r.walletLedgers
           /\ combinedLedger' = r.combinedLedger
           /\ ledgerSize' = r.ledgerSize
           /\ lblTotalFunds' = r.lblTotalFunds
           /\ lblUnconfirmed' = r.lblUnconfirmed
           /\ ledgerTable' = r.ledgerTable
           /\ lastExc' = r.exc
           \* reactor.callLater(nextBeatSec, self.Heartbeat), when reached
           /\ hbScheduled' = (r.exc = "")
           /\ hbTrace' = HeartbeatSteps(bdmInitialized, extraHeartbeatFunctions, r.exc)
           /\ quietTicks' = IF r.exc = "" /\ pendingBlks = 0
                            THEN IF quietTicks < MaxQuietTicks THEN quietTicks + 1
                                                               ELSE quietTicks
                            ELSE 0
    /\ UNCHANGED <<pc, regVars, walletSubLedgers, rdoChecked, bdmInitialized, fileHeight,
                   txBlock, fileEvents, zeroConfTx, statusBar, netVars,
                   extraHeartbeatFunctions>>

(***************************************************************************)
(* A radio button is clicked: the slot is createCombinedLedger()           *)
(***************************************************************************)
RadioClicked ==
    /\ pc = "run"
    /\ \E b \in {"all", "mine", "watch"} :
         /\ rdoChecked' = b
         /\ LET r == createCombinedLedger(SelectedWallets(walletMap, b), walletMap,
                                          walletLedgers, latestBlockNum, bdmHeight)
            IN  /\ walletLedgers' = r.walletLedgers
                /\ combinedLedger' = r.combinedLedger
                /\ ledgerSize' = r.ledgerSize
                /\ lblTotalFunds' = r.lblTotalFunds
                /\ lblUnconfirmed' = r.lblUnconfirmed
                /\ ledgerTable' = r.ledgerTable
                /\ lastExc' = r.exc
    /\ quietTicks' = 0
    /\ UNCHANGED <<pc, regVars, walletBalances, walletSubLedgers, latestBlockNum,
                   chainVars, zeroConfTx, hbScheduled, auxVars>>

(***************************************************************************)
(* The environment: the peer and the block file                            *)
(***************************************************************************)
\* The networking factory records an unconfirmed transaction (first seen wins).
ReceiveZeroConfTx ==
    /\ pc = "run"
    /\ \E h \in Hashes :
         /\ txBlock[h] = NoBlock
         /\ h \notin DOMAIN zeroConfTx
         /\ Cardinality(DOMAIN zeroConfTx) < MaxZeroConf
         /\ zeroConfTx' = (h :> ArrivalTime) @@ zeroConfTx
    /\ quietTicks' = 0
    /\ UNCHANGED <<pc, regVars, mirrorVars, ledgerVars, rdoChecked, latestBlockNum,
                   chainVars, hbScheduled, lastExc, auxVars>>

\* A block with some of the unmined transactions is appended to blk0001.dat.
AppendBlock ==
    /\ pc = "run"
    /\ fileEvents < MaxFileEvents
    /\ \E S \in SUBSET {h \in Hashes : txBlock[h] = NoBlock} :
         txBlock' = [h \in Hashes |-> IF h \in S THEN fileHeight + 1 ELSE txBlock[h]]
    /\ fileHeight' = fileHeight + 1
    /\ pendingBlks' = pendingBlks + 1
    /\ fileEvents' = fileEvents + 1
    /\ quietTicks' = 0
    /\ UNCHANGED <<pc, regVars, mirrorVars, ledgerVars, rdoChecked, latestBlockNum,
                   bdmInitialized, bdmHeight, zeroConfTx, hbScheduled, lastExc, auxVars>>

\* A block is appended that makes a branch one block shorter the best chain:
\* the transactions of the former top block are in no block again.
ReorgBlock ==
    /\ pc = "run"
    /\ fileEvents < MaxFileEvents
    /\ fileHeight > 0
    /\ txBlock' = [h \in Hashes |-> IF txBlock[h] = fileHeight THEN NoBlock ELSE txBlock[h]]
    /\ fileHeight' = fileHeight - 1
    /\ pendingBlks' = pendingBlks + 1
    /\ fileEvents' = fileEvents + 1
    /\ quietTicks' = 0
    /\ UNCHANGED <<pc, regVars, mirrorVars, ledgerVars, rdoChecked, latestBlockNum,
                   bdmInitialized, bdmHeight, zeroConfTx, hbScheduled, lastExc, auxVars>>

Next ==
    \/ LoadWalletStep
    \/ LoadWalletsDone
    \/ loadBlockchain
    \/ Heartbeat
    \/ RadioClicked
    \/ ReceiveZeroConfTx
    \/ AppendBlock
    \/ ReorgBlock

Spec == Init /\ [][Next]_vars


(***************************************************************************)
(* convertLedgerToTable on its own: the window has loaded the wallets of   *)
(* p1 and p3, and the method is handed any ledger of at most MaxRows rows  *)
(* (block numbers 0, StartHeight and the unconfirmed one), at a tracked    *)
(* tip around StartHeight.                                                 *)
(***************************************************************************)
TableEntries ==
    {<<w, [txHash |-> h, blockNum |-> b, index |-> 1, value |-> TxWalletValue(h, w)]>> :
        w \in WalletIDs, h \in Hashes, b \in {0, StartHeight, UINT32_MAX}}

InitTable ==
    /\ pc = "table"
    /\ wltPaths = << >>
    /\ pathIdx = 1
    /\ wltExclude = {}
    /\ wltOffline = {}
    /\ walletMap = ("A" :> NewHandle(readWalletFile("p1")))
                     @@ ("B" :> NewHandle(readWalletFile("p3")))
    /\ walletIndices = ("A" :> 0) @@ ("B" :> 1)
    /\ walletIDSet = {"A", "B"}
    /\ walletIDList = <<"A", "B">>
    /\ walletBalances = [kind |-> "list", items |-> <<UnsetBalance, UnsetBalance>>]
    /\ walletSubLedgers = << >>
    /\ walletLedgers = << >>
    /\ walletOfflines = {}
    /\ combinedLedger \in SeqsUpTo(TableEntries, MaxRows)
    /\ ledgerSize = Len(combinedLedger)
    /\ ledgerTable = << >>
    /\ lblTotalFunds = NoText
    /\ lblUnconfirmed = NoText
    /\ rdoChecked = "all"
    /\ latestBlockNum \in {StartHeight - 1, StartHeight, StartHeight + 1}
    /\ bdmInitialized = TRUE
    /\ bdmHeight = latestBlockNum
    /\ fileHeight = latestBlockNum
    /\ pendingBlks = 0
    /\ txBlock = [h \in Hashes |-> NoBlock]
    /\ fileEvents = 0
    /\ zeroConfTx \in {<< >>, [h \in Hashes |-> ArrivalTime]}
    /\ hbScheduled = FALSE
    /\ quietTicks = 0
    /\ lastExc = ""
    /\ statusBar = ""
    /\ connection = NoConnection
    /\ reconnects = 0
    /\ extraHeartbeatFunctions = <<"createCombinedLedger">>
    /\ hbTrace = << >>

\* self.ledgerTable = self.convertLedgerToTable(self.combinedLedger)
RefreshTable ==
    /\ pc = "table"
    /\ LET conv == convertLedgerToTable(combinedLedger, walletMap, latestBlockNum, bdmHeight)
       IN  /\ ledgerTable' = IF conv.exc = "" THEN conv.table ELSE ledgerTable
           /\ lastExc' = conv.exc
    /\ pc' = "tabled"
    /\ UNCHANGED <<regVars, mirrorVars, combinedLedger, ledgerSize, lblTotalFunds,
                   lblUnconfirmed, rdoChecked, latestBlockNum, chainVars, zeroConfTx,
                   hbVars, auxVars>>

\* The totals of createCombinedLedger on their own: the loop over
\* self.combinedLedger and the two setText calls.
RefreshTotals ==
    /\ pc = "table"
    /\ LET funds == FundTotals(combinedLedger, latestBlockNum)
       IN  /\ lblTotalFunds' = <<funds[1]>>
           /\ lblUnconfirmed' = <<funds[2]>>
    /\ lastExc' = ""
    /\ pc' = "totalled"
    /\ UNCHANGED <<regVars, mirrorVars, combinedLedger, ledgerSize, ledgerTable,
                   rdoChecked, latestBlockNum, chainVars, zeroConfTx, hbVars, auxVars>>

NextTable == RefreshTable \/ RefreshTotals

SpecTable == InitTable /\ [][NextTable]_vars

(***************************************************************************)
(* The connection to the Satoshi client.  setupNetworking hands            *)
(* restartConnection to the factory as its func_loseConnect; the factory   *)
(* calls it with the protocol object of the connection that was lost.      *)
(* The window is followed from its construction on with the block file     *)
(* left alone, and with the connection being made, established and lost.   *)
(***************************************************************************)
\* (host, port) as the --host and --port options can name them
Endpoints == {<<"127.0.0.1", 8333>>, <<"10.0.0.2", 18333>>}

\* Mutant of restartConnection: the reconnect goes to the default endpoint.
restartConnectionDefault(peer) == [status |-> "connecting", peer |-> <<"127.0.0.1", 8333>>]

\* reactor.connectTCP(protoObj.peer[0], protoObj.peer[1], self.NetworkingFactory)
restartConnection(peer) == [status |-> "connecting", peer |-> <<peer[1], peer[2]>>]

\* reactor.connectTCP(host, port, self.NetworkingFactory): the first connection
ConnectPeer ==
    /\ pc = "run"
    /\ connection.status = "none"
    /\ \E e \in Endpoints : connection' = [status |-> "connecting", peer |-> e]
    /\ UNCHANGED <<pc, regVars, mirrorVars, ledgerVars, rdoChecked, latestBlockNum,
                   chainVars, zeroConfTx, hbVars, lastExc, statusBar, reconnects, beatVars>>

\* The pending connectTCP succeeds: the protocol object records its peer.
ConnectionMade ==
    /\ pc = "run"
    /\ connection.status = "connecting"
    /\ connection' = [connection EXCEPT !.status = "up"]
    /\ UNCHANGED <<pc, regVars, mirrorVars, ledgerVars, rdoChecked, latestBlockNum,
                   chainVars, zeroConfTx, hbVars, lastExc, statusBar, reconnects, beatVars>>

\* The connection is lost: the factory calls func_loseConnect, which is
\* restartConnection(protoObj, failReason).
ConnectionLost ==
    /\ pc = "run"
    /\ connection.status = "up"
    /\ connection' = restartConnection(connection.peer)
    /\ reconnects' = IF reconnects < MaxReconnects THEN reconnects + 1 ELSE reconnects
    /\ UNCHANGED <<pc, regVars, mirrorVars, ledgerVars, rdoChecked, latestBlockNum,
                   chainVars, zeroConfTx, hbVars, lastExc, statusBar, beatVars>>

NextNet ==
    \/ LoadWalletStep
    \/ LoadWalletsDone
    \/ loadBlockchain
    \/ Heartbeat
    \/ ConnectPeer
    \/ ConnectionMade
    \/ ConnectionLost

SpecNet == Init /\ [][NextNet]_vars

(***************************************************************************)
(* The functions Heartbeat calls.  __init__ puts createCombinedLedger in   *)
(* self.extraHeartbeatFunctions; the list is open to further functions,    *)
(* which other parts of the program append while the window runs.          *)
(***************************************************************************)
Hooks == {"hookA", "hookB"}

\* self.extraHeartbeatFunctions.append(f)
RegisterObserver ==
    /\ pc = "run"
    /\ \E f \in Hooks :
         /\ f \notin Range(extraHeartbeatFunctions)
         /\ extraHeartbeatFunctions' = Append(extraHeartbeatFunctions, f)
    /\ UNCHANGED <<pc, regVars, mirrorVars, ledgerVars, rdoChecked, latestBlockNum,
                   chainVars, zeroConfTx, hbVars, lastExc, statusBar, netVars, hbTrace>>

NextBeat ==
    \/ LoadWalletStep
    \/ LoadWalletsDone
    \/ loadBlockchain
    \/ Heartbeat
    \/ RadioClicked
    \/ AppendBlock
    \/ RegisterObserver

\* The window is followed from a start with empty 'Excluded_Wallets' and
\* 'Offline_WalletIDs' settings.
InitBeat == Init /\ wltExclude = {} /\ wltOffline = {}

SpecBeat == InitBeat /\ [][NextBeat]_vars

(***************************************************************************)
(* Properties                                                              *)
(***************************************************************************)
\* A handler that builds the combined ledger has just returned normally.
BuildStep == (Heartbeat \/ RadioClicked \/ loadBlockchain) /\ lastExc' = ""

\* C1: the combined ledger is sorted newest first: of two adjacent rows the
\* ordering key of the first is not less than that of the second.
C1_SortedNewestFirst ==
    \A i \in 1..(Len(combinedLedger) - 1) :
        ~KeyLess(combinedLedger[i][2], combinedLedger[i + 1][2])

\* A built ledger that holds rows of two wallets and rows of different keys.
C1_Witness ==
    /\ pc = "run" /\ lastExc = ""
    /\ \E i, j \in 1..Len(combinedLedger) :
         /\ combinedLedger[i][1] # combinedLedger[j][1]
         /\ KeyLess(combinedLedger[i][2], combinedLedger[j][2])
    /\ \E i \in 1..(Len(combinedLedger) - 1) :
         KeyLess(combinedLedger[i + 1][2], combinedLedger[i][2])

\* C2: the two totals shown add up to the sum of the values of the rows of
\* the combined ledger.
C2_TotalsAddUp ==
    lblTotalFunds # NoText =>
        lblTotalFunds[1] + lblUnconfirmed[1] =
            SumSeq([i \in 1..Len(combinedLedger) |-> combinedLedger[i][2].value])

\* Both totals are fed: two unconfirmed rows and a confirmed one.
C2_Witness ==
    /\ lblTotalFunds # NoText
    /\ lblTotalFunds[1] # 0
    /\ Cardinality({i \in 1..Len(combinedLedger) :
          latestBlockNum - combinedLedger[i][2].blockNum + 1 < ConfThreshold}) >= 2

\* The rows the claim expects: the confirmed and the zero-confirmation
\* entries of the wallets the checked radio button selects.
ExpectedRows ==
    LET ids == SelectedWallets(walletMap, rdoChecked)
    IN  SumSeq([i \in 1..Len(ids) |->
                  Len(walletMap[ids[i]].txLedger) + Len(createZeroConfLedger(ids[i]))])

\* C3: after a build the number of rows is the number of confirmed entries
\* plus the number of zero-confirmation entries of the selected wallets.
C3_RowCountWithZeroConf == [][BuildStep => ledgerSize' = ExpectedRows']_vars

\* The paths before position n that were read, are not excluded and hold
\* wallet wltID.
LoadedBefore(wltID, n) ==
    {i \in 1..(n - 1) : /\ readWalletFile(wltPaths[i]).ok
                        /\ readWalletFile(wltPaths[i]).wltUniqueIDB58 = wltID
                        /\ wltPaths[i] \notin wltExclude}

FirstLoaded(wltID, n) ==
    CHOOSE i \in LoadedBefore(wltID, n) : \A j \in LoadedBefore(wltID, n) : i <= j

\* C4: while the paths are loaded, a wallet ID that was loaded from one or
\* more paths has one registry entry, and that entry (handle, index,
\* balance slot, offline flag) is the one made for the first of them.
C4_FirstLoadedWins ==
    pc = "load" =>
      \A wltID \in WalletIDs :
        IF LoadedBefore(wltID, pathIdx) = {}
        THEN wltID \notin walletIDSet /\ wltID \notin DOMAIN walletMap
        ELSE LET first == wltPaths[FirstLoaded(wltID, pathIdx)]
                 at == {k \in 1..Len(walletIDList) : walletIDList[k] = wltID}
             IN  /\ wltID \in walletIDSet
                 /\ Cardinality(at) = 1
                 /\ walletMap[wltID] = NewHandle(readWalletFile(first))
                 /\ at = {walletIndices[wltID] + 1}
                 /\ Len(walletBalances.items) = Len(walletIDList)
                 /\ walletBalances.items[walletIndices[wltID] + 1] = UnsetBalance
                 /\ (wltID \in walletOfflines) <=>
                        (wltID \in wltOffline \/ first \in wltOffline)

\* Two different files with the same wallet ID were both loaded.
C4_Witness ==
    /\ pc = "load"
    /\ \E wltID \in WalletIDs : \E i, j \in LoadedBefore(wltID, pathIdx) :
         i < j /\ wltPaths[i] # wltPaths[j]

\* Transaction h is in a block the engine has applied.
InAppliedBlock(h) == bdmInitialized /\ pendingBlks = 0 /\ txBlock[h] # NoBlock

\* Transaction h has a confirmed entry in the ledger of a wallet.
InWalletLedger(h) ==
    \E w \in DOMAIN walletMap : \E i \in 1..Len(walletMap[w].txLedger) :
        walletMap[w].txLedger[i].txHash = h

\* C5: no tracked zero-confirmation transaction of a registered wallet is in
\* a block the engine has applied, or a confirmed entry of a wallet ledger.
C5_ZeroConfNotConfirmed ==
    \A h \in DOMAIN zeroConfTx :
        (\E w \in DOMAIN walletMap : TxTouches(h, w)) =>
            ~InAppliedBlock(h) /\ ~InWalletLedger(h)

\* C6: a Heartbeat that finds no new block, right after a Heartbeat that
\* found none, leaves the combined ledger, the table and both totals as
\* they were.
C6_QuietHeartbeatIdempotent ==
    [][(Heartbeat /\ quietTicks >= 1 /\ quietTicks' >= 1) =>
          /\ combinedLedger' = combinedLedger
          /\ ledgerTable' = ledgerTable
          /\ lblTotalFunds' = lblTotalFunds
          /\ lblUnconfirmed' = lblUnconfirmed]_vars

\* Two uneventful Heartbeats in a row over a ledger with several rows.
C6_Witness == quietTicks >= 2 /\ Len(combinedLedger) >= 2 /\ Len(ledgerTable) >= 2

\* C7: once the window runs, a call of Heartbeat is always pending.
C7_HeartbeatAlwaysScheduled == pc = "run" => hbScheduled

\* C9: a poll made while the engine is initialized, and the engine not
\* below the tracked tip, leaves the tracked tip at the engine's top height.
C9_PollSetsTip ==
    [][(Heartbeat /\ bdmInitialized /\ bdmHeight' >= latestBlockNum) =>
          latestBlockNum' = bdmHeight']_vars

\* C10: the tracked tip never decreases.
C10_TipMonotonic == [][latestBlockNum' >= latestBlockNum]_vars

\* C8: the confirmation count of a row is tip - height + 1 when the entry is
\* in a block and 0 when its height is the unconfirmed one.
C8_ConfirmationCount ==
    (pc = "tabled" /\ lastExc = "") =>
        /\ Len(ledgerTable) = Len(combinedLedger)
        /\ \A i \in 1..Len(ledgerTable) :
             ledgerTable[i].NumConf =
                IF combinedLedger[i][2].blockNum = UINT32_MAX
                THEN 0
                ELSE latestBlockNum - combinedLedger[i][2].blockNum + 1

\* A table with a row of an unconfirmed entry and a row of a confirmed one.
C8_Witness ==
    /\ pc = "tabled" /\ lastExc = ""
    /\ \E i, j \in 1..Len(ledgerTable) :
         /\ combinedLedger[i][2].blockNum = UINT32_MAX /\ ledgerTable[i].NumConf = 0
         /\ combinedLedger[j][2].blockNum # UINT32_MAX /\ ledgerTable[j].NumConf >= 1

\* C11: a file that cannot be read as a wallet is skipped and the loading
\* goes on: no exception leaves the loader, and when the loop is over the
\* wallet of every readable path that is not excluded is registered.
C11_UnreadableWalletSkipped ==
    /\ lastExc # "WalletLoadError"
    /\ (pc = "load" /\ pathIdx > Len(wltPaths)) =>
          \A i \in 1..Len(wltPaths) :
              (readWalletFile(wltPaths[i]).ok /\ wltPaths[i] \notin wltExclude) =>
                  readWalletFile(wltPaths[i]).wltUniqueIDB58 \in walletIDSet

C13_WalletsResynced ==
    [][((loadBlockchain /\ bdmInitialized') \/ (Heartbeat /\ bdmInitialized)) =>
          \A w \in DOMAIN walletMap' :
              /\ walletMap'[w].txLedger = ScanWallet(w, txBlock')
              /\ walletMap'[w].balance = LedgerBalance(ScanWallet(w, txBlock'))]_vars

\* C14: whenever the connection is lost, a connect to the host and port of
\* the lost connection is pending at once, however often it was lost
\* before; the loss raises nothing and leaves the program position, the
\* pending Heartbeat, the ledgers and the table as they were.
C14_ReconnectSameEndpoint ==
    [][ConnectionLost =>
          /\ connection'.status = "connecting"
          /\ connection'.peer = connection.peer
          /\ pc' = "run" /\ lastExc' = lastExc
          /\ hbScheduled' = hbScheduled
          /\ UNCHANGED <<mirrorVars, ledgerVars, latestBlockNum>>]_vars

\* The connection to the endpoint that is not the default one was lost
\* MaxReconnects times and a connect to it is pending again, while the
\* Heartbeat keeps running over a ledger with rows.
C14_Witness ==
    /\ reconnects >= MaxReconnects
    /\ connection = [status |-> "connecting", peer |-> <<"10.0.0.2", 18333>>]
    /\ pc = "run" /\ lastExc = "" /\ hbScheduled
    /\ quietTicks >= 2 /\ combinedLedger # << >>

\* Position of x in the sequence s.
PosIn(s, x) == CHOOSE k \in 1..Len(s) : s[k] = x

\* s lists exactly the members of S, each once, in the order of walletIDList.
ListsInRegistryOrder(s, S) ==
    /\ Range(s) = S
    /\ Len(s) = Cardinality(S)
    /\ \A i, j \in 1..Len(s) : i < j => PosIn(walletIDList, s[i]) < PosIn(walletIDList, s[j])

\* The wallets whose rows are in the combined ledger.
WalletsShown == {combinedLedger[i][1] : i \in 1..Len(combinedLedger)}

\* C15: "all" selects the registered wallets, "mine" those that are not
\* watch-only and "watch" those that are, each in registry order; and the
\* rows of a built combined ledger are those of the wallets so selected by
\* the checked radio button.
C15_SelectionPartitions ==
    LET watch == {w \in DOMAIN walletMap : walletMap[w].watchingOnly}
        mine == DOMAIN walletMap \ watch
        chosen == CASE rdoChecked = "all" -> DOMAIN walletMap
                    [] rdoChecked = "mine" -> mine
                    [] rdoChecked = "watch" -> watch
    IN  /\ SelectedWallets(walletMap, "all") = walletIDList
        /\ ListsInRegistryOrder(SelectedWallets(walletMap, "mine"), mine)
        /\ ListsInRegistryOrder(SelectedWallets(walletMap, "watch"), watch)
        /\ (pc = "run" /\ lastExc = "" /\ bdmInitialized) =>
              WalletsShown = {w \in chosen : walletMap[w].txLedger # << >>}

\* "mine" is checked with a watch-only and another wallet registered, both
\* with ledger entries, and the rows shown are those of the other wallet.
C15_Witness ==
    /\ pc = "run" /\ lastExc = "" /\ bdmInitialized /\ rdoChecked = "mine"
    /\ \E a, b \in DOMAIN walletMap :
         /\ ~walletMap[a].watchingOnly /\ walletMap[b].watchingOnly
         /\ walletMap[a].txLedger # << >> /\ walletMap[b].txLedger # << >>
         /\ WalletsShown = {a}

\* C16: in every row of the table the is-mine flag is false when the
\* row's wallet is watch-only and marked offline, and true when the row's
\* wallet is not watch-only.
C16_IsMineFlag ==
    \A i \in 1..Len(ledgerTable) :
        LET wlt == walletMap[ledgerTable[i].WltID]
        IN  /\ (wlt.watchingOnly /\ ledgerTable[i].WltID \in walletOfflines) =>
                  ~ledgerTable[i].IsMine
            /\ (~wlt.watchingOnly) => ledgerTable[i].IsMine

\* The sum of the values of the rows of the combined ledger whose entry
\* has (unconf = TRUE) or has not (unconf = FALSE) fewer confirmations than
\* the threshold at the tracked tip.
ValueOfRows(unconf) ==
    SumSeq([i \in 1..Len(combinedLedger) |->
              IF ((latestBlockNum - combinedLedger[i][2].blockNum + 1) < 6) = unconf
              THEN combinedLedger[i][2].value ELSE 0])

\* C17: the unconfirmed total is the sum of the values of exactly the rows
\* with tip - height + 1 < 6, which includes every row of the unconfirmed
\* height, and the confirmed total is the sum of the values of all other
\* rows, which includes the rows with exactly 6 confirmations.
C17_PartitionByThreshold ==
    lblTotalFunds # NoText =>
        /\ lblUnconfirmed[1] = ValueOfRows(TRUE)
        /\ lblTotalFunds[1] = ValueOfRows(FALSE)
        /\ \A i \in 1..Len(combinedLedger) :
             combinedLedger[i][2].blockNum = UINT32_MAX =>
                 (latestBlockNum - combinedLedger[i][2].blockNum + 1) < 6

\* The totals of a ledger of two rows: one of the unconfirmed height, whose
\* value is the unconfirmed total, and one with exactly 6 confirmations,
\* whose value is the confirmed total.
C17_Witness ==
    /\ pc = "totalled" /\ Len(combinedLedger) = 2
    /\ \E i, j \in 1..2 :
         /\ combinedLedger[i][2].blockNum = UINT32_MAX
         /\ latestBlockNum - combinedLedger[j][2].blockNum + 1 = 6
         /\ combinedLedger[i][2].value # 0 /\ combinedLedger[j][2].value # 0
         /\ combinedLedger[i][2].value # combinedLedger[j][2].value
         /\ lblUnconfirmed = <<combinedLedger[i][2].value>>
         /\ lblTotalFunds = <<combinedLedger[j][2].value>>

\* Wallet IDs in ascending order: "A" comes before "B".
WalletRank(wltID) == IF wltID = "A" THEN 1 ELSE 2

\* C18: of two adjacent rows of the combined ledger with equal ordering
\* keys, the first has the smaller wallet ID, or the same wallet ID and the
\* smaller transaction hash.
C18_TiesByWalletThenHash ==
    \A i \in 1..(Len(combinedLedger) - 1) :
        LET a == combinedLedger[i]
            b == combinedLedger[i + 1]
        IN  (~KeyLess(a[2], b[2]) /\ ~KeyLess(b[2], a[2])) =>
                \/ WalletRank(a[1]) < WalletRank(b[1])
                \/ a[1] = b[1] /\ a[2].txHash < b[2].txHash

\* C19: a Heartbeat that returns normally has polled the engine first
\* (when it is initialized), then rebuilt the combined ledger for the
\* checked radio button at the tip the poll left, then called every other
\* registered function once in the order of registration, and asked for
\* the next Heartbeat last.
C19_HeartbeatOrder ==
    [][(Heartbeat /\ lastExc' = "") =>
          /\ hbTrace' = (IF bdmInitialized THEN <<"readBlkFileUpdate">> ELSE << >>)
                           \o extraHeartbeatFunctions \o <<"callLater">>
          /\ Head(extraHeartbeatFunctions) = "createCombinedLedger"
          /\ \A f \in Range(extraHeartbeatFunctions) :
                Cardinality({i \in 1..Len(hbTrace') : hbTrace'[i] = f}) = 1
          /\ hbScheduled'
          /\ WalletsShown' \subseteq Range(SelectedWallets(walletMap, rdoChecked))
          /\ lblUnconfirmed' = <<ValueOfRows(TRUE)'>>
          /\ \A i \in 1..Len(ledgerTable') :
                ledgerTable'[i].NumConf = latestBlockNum' - combinedLedger'[i][2].blockNum + 1]_vars

\* A Heartbeat with two more functions registered, hookB before hookA, has
\* run over a ledger with rows after the poll moved the tip.
C19_Witness ==
    /\ pc = "run" /\ lastExc = ""
    /\ hbTrace = <<"readBlkFileUpdate", "createCombinedLedger", "hookB", "hookA", "callLater">>
    /\ latestBlockNum > StartHeight
    /\ combinedLedger # << >> /\ rdoChecked # "all"

\* C20: the registry is consistent: walletIDList repeats no ID; the keys of
\* walletMap, walletIDSet and the IDs of walletIDList are the same set;
\* walletIndices maps every ID to its position in walletIDList; the offline
\* IDs are registered; and while and after the paths are loaded
\* walletBalances has one slot per registered wallet.
C20_RegistryConsistent ==
    /\ Cardinality(Range(walletIDList)) = Len(walletIDList)
    /\ DOMAIN walletMap = walletIDSet
    /\ walletIDSet = Range(walletIDList)
    /\ DOMAIN walletIndices = walletIDSet
    /\ \A k \in 1..Len(walletIDList) : walletIndices[walletIDList[k]] = k - 1
    /\ walletOfflines \subseteq walletIDSet
    /\ (pc \in {"load", "chain", "dead"}) =>
          /\ walletBalances.kind = "list"
          /\ Len(walletBalances.items) = Len(walletIDList)

\* The loop is over two paths that registered wallet B and then wallet A,
\* B being marked offline.
C20_Witness ==
    /\ pc = "load" /\ pathIdx > Len(wltPaths) /\ Len(wltPaths) = MaxPaths
    /\ walletIDList = <<"B", "A">>
    /\ walletOfflines = {"B"}

\* C21: walletBalances is always a list with one balance per registered
\* wallet, and once the chain is loaded the slot at walletIndices[id] holds
\* the balance of wallet id.
C21_BalancesPerWallet ==
    /\ walletBalances.kind = "list"
    /\ Len(walletBalances.items) = Len(walletIDList)
    /\ (pc = "run" /\ bdmInitialized) =>
          \A id \in walletIDSet :
              walletBalances.items[walletIndices[id] + 1] = walletMap[id].balance

\* C22: a chain load that succeeds leaves, for every registered wallet id,
\* the ledger of id at walletLedgers[walletIndices[id]] and the per-address
\* ledgers of id at walletSubLedgers[walletIndices[id]].
C22_MirrorsAligned ==
    [][(loadBlockchain /\ bdmInitialized' /\ lastExc' = "") =>
          /\ Len(walletLedgers') = Len(walletIDList)
          /\ Len(walletSubLedgers') = Len(walletIDList)
          /\ \A id \in walletIDSet :
               /\ walletLedgers'[walletIndices[id] + 1] = walletMap'[id].txLedger
               /\ walletSubLedgers'[walletIndices[id] + 1] = SubLedgersOf(id, txBlock)]_vars

\* C23: while the window runs walletLedgers has a slot at walletIndices[id]
\* for every registered wallet id, and no rebuild of the combined ledger,
\* by a Heartbeat or by a click on a radio button, ends in an IndexError.
C23_RebuildInRange ==
    /\ pc = "run" => \A id \in walletIDSet : walletIndices[id] + 1 <= Len(walletLedgers)
    /\ lastExc # "IndexError"

=============================================================================
